---------------------------- MODULE Spec2Model ----------------------------
(***************************************************************************)
(* ManualProjectCreate (ButtonPrimary.tsx, second unit): the form          *)
(* controller that collects a project key and a display name, validates    *)
(* both locally, checks the key's uniqueness remotely through a debounced  *)
(* checkFreeKey, and submits the pair to createProject.                    *)
(*                                                                         *)
(* Strings are sequences of one-character strings.  The event loop is      *)
(* single threaded: every handler and every promise callback is one atomic *)
(* action.  Time is the elapsed time since the last debounced call and     *)
(* since the last key edit, both capped at the debounce window.            *)
(***************************************************************************)
EXTENDS Integers, Sequences, FiniteSets, Bags

VARIABLES
    \* ---- this.state (State, lines 75-84) and this.mounted (line 89)
    projectKey, projectKeyError, projectName, projectNameChanged,
    projectNameError, submitting, touched, validating, mounted,
    \* ---- React lifecycle position of the component
    lifecycle,
    \* ---- lodash debounce around checkFreeKey (line 101)
    timerArgs,      \* lastArgs of the pending debounced call: <<key>>, or <<>>
    sinceCall,      \* ms since the last debounced call, capped at DEBOUNCE_WAIT
    \* ---- remote calls in flight
    checksIssued,   \* number of doesComponentExists requests issued so far
    checkInFlight,  \* bag of keys: unanswered doesComponentExists requests
    createIssued,   \* number of createProject requests issued so far
    createInFlight, \* bag of [project, name]: unanswered createProject requests
    \* ---- props.onProjectCreate: the argument list of every invocation
    onProjectCreateCalls,
    \* ---- history (observation only, never read by the handlers)
    sinceEdit,      \* ms since the last key edit, capped at DEBOUNCE_WAIT
    burst,          \* the current burst of key edits and the requests it caused
    audit,          \* the responses delivered: see Delivered and Completed
    created         \* the keys of the projects createProject resolved with

formState == <<projectKey, projectKeyError, projectName, projectNameChanged,
               projectNameError, submitting, touched, validating>>

vars == <<projectKey, projectKeyError, projectName, projectNameChanged,
          projectNameError, submitting, touched, validating, mounted,
          lifecycle, timerArgs, sinceCall, checksIssued, checkInFlight,
          createIssued, createInFlight, onProjectCreateCalls,
          sinceEdit, burst, audit, created>>

---------------------------------------------------------------------------
\* Bounds of the model.

\* doesComponentExists requests issued in one run
MaxChecks == 2
\* createProject requests issued in one run
MaxCreates == 1
\* how many createProject requests the form issues through its submit button
MaxSubmits == 2
\* granularity of the clock, in ms
TickStep == 125

\* debounce(this.checkFreeKey, 250)
DEBOUNCE_WAIT == 250
\* projectKey.length > 400
MAX_KEY_LENGTH == 400
\* projectName.length > 255
MAX_NAME_LENGTH == 255

---------------------------------------------------------------------------
\* Values.

undefined == "undefined"
\* no debounced call is pending
NoArgs == <<>>

\* History of the current burst of key edits, a burst being a run of edits each
\* less than DEBOUNCE_WAIT ms after the one before:
\*   edits    how many edits it has so far, 2 standing for two or more
\*   reqs     the keys of the doesComponentExists requests that came out of its
\*            debounced calls, in order
\*   valid    whether every edit of it passed validateKey
\*   pending  whether the pending debounced call was made by one of its edits

\* The characters the inputs are built from, by the classes the code tells apart.
Letters == {"a", "n"}
Digits == {"1"}
Whitespace == {" "}

\* What the user can type into the key field: two different valid keys and a
\* key without a letter.
KeyInputs == { <<"a">>, <<"a", "1">>, <<"1">> }
\* What the user can type into the name field: a blank name and a name with a
\* trailing blank.
NameInputs == { <<" ">>, <<"n", " ">> }

\* translate(): the message catalogue maps a message key to its display text.
Messages ==
    [k \in {"onboarding.create_project.project_key.error",
            "onboarding.create_project.project_key.taken",
            "onboarding.create_project.display_name.error"} |->
        CASE k = "onboarding.create_project.project_key.error" -> "invalid project key"
          [] k = "onboarding.create_project.project_key.taken" -> "project key already taken"
          [] OTHER -> "invalid display name"]
translate(messageKey) == Messages[messageKey]

---------------------------------------------------------------------------
\* Pure helpers.

\* \w of the regular expression
WordChar(c) == c \in Letters \cup Digits \cup {"_"}
\* [\w-.:]
KeyChar(c) == WordChar(c) \/ c \in {"-", ".", ":"}
\* [a-zA-Z]
LetterChar(c) == c \in Letters

\* /^[\w-.:]*[a-zA-Z]+[\w-.:]*$/.test(s): a prefix of key characters, a
\* non-empty run of letters, a suffix of key characters.
KeyRegexTest(s) ==
    \E i \in 0..Len(s) : \E j \in 0..Len(s) :
        /\ i < j
        /\ \A p \in 1..i : KeyChar(s[p])
        /\ \A p \in (i+1)..j : LetterChar(s[p])
        /\ \A p \in (j+1)..Len(s) : KeyChar(s[p])

\* validateKey that rejects a key of exactly the maximal length
validateKey_offByOne(key) ==
    IF Len(key) >= MAX_KEY_LENGTH \/ ~KeyRegexTest(key)
    THEN translate("onboarding.create_project.project_key.error")
    ELSE undefined

validateKey(key) ==
    IF Len(key) > MAX_KEY_LENGTH \/ ~KeyRegexTest(key)
    THEN translate("onboarding.create_project.project_key.error")
    ELSE undefined

\* validateName that rejects a name of exactly the maximal length
validateName_offByOne(name) ==
    IF Len(name) = 0 \/ Len(name) >= MAX_NAME_LENGTH
    THEN translate("onboarding.create_project.display_name.error")
    ELSE undefined

validateName(name) ==
    IF Len(name) = 0 \/ Len(name) > MAX_NAME_LENGTH
    THEN translate("onboarding.create_project.display_name.error")
    ELSE undefined

\* String.prototype.trim
RECURSIVE TrimStart(_)
TrimStart(s) ==
    IF s # <<>> /\ Head(s) \in Whitespace THEN TrimStart(Tail(s)) ELSE s
RECURSIVE TrimEnd(_)
TrimEnd(s) ==
    IF s # <<>> /\ s[Len(s)] \in Whitespace
    THEN TrimEnd(SubSeq(s, 1, Len(s) - 1)) ELSE s
trim(s) == TrimEnd(TrimStart(s))

\* a || b on strings: the empty string is falsy
OrElse(a, b) == IF a # <<>> THEN a ELSE b

\* canSubmit that also waits for the uniqueness check
canSubmit_waitsForValidation ==
    /\ projectKeyError = undefined
    /\ projectNameError = undefined
    /\ Len(projectKey) > 0
    /\ Len(projectName) > 0
    /\ ~validating

\* canSubmit that forgets the key's error
canSubmit_ignoresKeyError ==
    /\ projectNameError = undefined
    /\ Len(projectKey) > 0
    /\ Len(projectName) > 0

\* canSubmit(state), on the current state
canSubmit ==
    /\ projectKeyError = undefined
    /\ projectNameError = undefined
    /\ Len(projectKey) > 0
    /\ Len(projectName) > 0

\* the name handleFormSubmit passes to createProject
createProjectName == trim(OrElse(projectName, projectKey))

Min(a, b) == IF a < b THEN a ELSE b

---------------------------------------------------------------------------
Init ==
    /\ projectKey = <<>>
    /\ projectKeyError = undefined
    /\ projectName = <<>>
    /\ projectNameChanged = FALSE
    /\ projectNameError = undefined
    /\ submitting = FALSE
    /\ touched = FALSE
    /\ validating = FALSE
    /\ mounted = FALSE
    /\ lifecycle = "constructed"
    /\ timerArgs = NoArgs
    /\ sinceCall = 0
    /\ checksIssued = 0
    /\ checkInFlight = EmptyBag
    /\ createIssued = 0
    /\ createInFlight = EmptyBag
    /\ onProjectCreateCalls = <<>>
    /\ sinceEdit = DEBOUNCE_WAIT
    /\ burst = [edits |-> 0, reqs |-> <<>>, valid |-> TRUE, pending |-> FALSE]
    /\ audit = [verdict |-> "none", stale |-> {}, late |-> {}]
    /\ created = <<>>


---------------------------------------------------------------------------
\* Lifecycle.

componentDidMount ==
    /\ lifecycle = "constructed"
    /\ mounted' = TRUE
    /\ lifecycle' = "mounted"
    /\ UNCHANGED <<formState, timerArgs, sinceCall, checksIssued, checkInFlight,
                   createIssued, createInFlight, onProjectCreateCalls,
                   sinceEdit, burst, audit, created>>

componentWillUnmount ==
    /\ lifecycle = "mounted"
    /\ mounted' = FALSE
    /\ lifecycle' = "unmounted"
    /\ UNCHANGED <<formState, timerArgs, sinceCall, checksIssued, checkInFlight,
                   createIssued, createInFlight, onProjectCreateCalls,
                   sinceEdit, burst, audit, created>>

\* The form's inputs exist, and deliver events, only while the component is
\* mounted.
acceptsEvents == lifecycle = "mounted"

\* onChange of a controlled input (value={...}, lines 250-252 and 274-276) is
\* delivered when the typed value differs from the value the input shows.
onChange(shown, value) == acceptsEvents /\ value # shown

---------------------------------------------------------------------------
\* The debounced checkFreeKey.

\* A throttle instead of a debounce: a call while the timer is pending does not
\* move lastCallTime.
debouncedCheckFreeKey_noRestart(key) ==
    /\ timerArgs' = <<key>>
    /\ sinceCall' = IF timerArgs = NoArgs THEN 0 ELSE sinceCall

\* A call of the debounced function: lodash records lastArgs and lastCallTime,
\* and starts the timer when none is pending.
debouncedCheckFreeKey(key) ==
    /\ timerArgs' = <<key>>
    /\ sinceCall' = 0

\* The timer fires once DEBOUNCE_WAIT ms have passed since the last call
\* (timerExpired/shouldInvoke); it may fire late, never early.
timerDue == timerArgs # NoArgs /\ sinceCall >= DEBOUNCE_WAIT

\* Time passes.
Tick ==
    /\ sinceEdit < DEBOUNCE_WAIT \/ (timerArgs # NoArgs /\ sinceCall < DEBOUNCE_WAIT)
    /\ sinceEdit' = Min(sinceEdit + TickStep, DEBOUNCE_WAIT)
    /\ sinceCall' = IF timerArgs # NoArgs
                    THEN Min(sinceCall + TickStep, DEBOUNCE_WAIT) ELSE sinceCall
    /\ UNCHANGED <<formState, mounted, lifecycle, timerArgs, checksIssued,
                   checkInFlight, createIssued, createInFlight,
                   onProjectCreateCalls, burst, audit, created>>

\* The trailing edge of the debounce: checkFreeKey(key) runs and issues
\* doesComponentExists({ component: key }).
checkFreeKey ==
    /\ timerDue
    /\ checksIssued' = checksIssued + 1
    /\ checkInFlight' = checkInFlight (+) SetToBag({timerArgs[1]})
    /\ timerArgs' = NoArgs
    /\ sinceCall' = 0
    /\ burst' = [burst EXCEPT
                    !.reqs = IF burst.pending THEN Append(@, timerArgs[1]) ELSE @,
                    !.pending = FALSE]
    /\ UNCHANGED <<formState, mounted, lifecycle, createIssued, createInFlight,
                   onProjectCreateCalls, sinceEdit, audit, created>>

---------------------------------------------------------------------------
\* The callbacks of checkFreeKey's promise.

\* History: the uniqueness response `outcome` for `key` is delivered.  verdict
\* is the outcome of the latest response that came for the current key before
\* teardown and since the last key edit; stale tells whether a response for
\* another key came before or after it; late collects the kinds of completion
\* that came after teardown.
Delivered(key, outcome) ==
    IF lifecycle = "unmounted" THEN [audit EXCEPT !.late = @ \cup {"check"}]
    ELSE IF key = projectKey THEN [audit EXCEPT !.verdict = outcome]
    ELSE [audit EXCEPT !.stale = @ \cup {IF audit.verdict = "none"
                                          THEN "before" ELSE "after"}]

\* the .then guard without the key comparison
thenApplies_noKeyCheck(key) == mounted
\* the .then guard without the mounted flag
thenApplies_noMountedCheck(key) == key = projectKey
\* if (this.mounted && key === this.state.projectKey), in .then
thenApplies(key) == mounted /\ key = projectKey

\* the .catch guard without the key comparison
catchApplies_noKeyCheck(key) == mounted
\* the .catch guard with the mounted flag inverted
catchApplies_whenUnmounted(key) == ~mounted /\ key = projectKey
\* if (this.mounted && key === this.state.projectKey), in .catch
catchApplies(key) == mounted /\ key = projectKey

\* the .then callback whose "taken" branch leaves validating set
checkFreeKeyThen_keepsValidating(key, alreadyExist) ==
    /\ BagIn(key, checkInFlight)
    /\ checkInFlight' = checkInFlight (-) SetToBag({key})
    /\ IF thenApplies(key)
       THEN IF ~alreadyExist
            THEN /\ projectKeyError' = undefined
                 /\ validating' = FALSE
                 /\ UNCHANGED touched
            ELSE /\ projectKeyError' =
                        translate("onboarding.create_project.project_key.taken")
                 /\ touched' = TRUE
                 /\ UNCHANGED validating
       ELSE UNCHANGED <<projectKeyError, touched, validating>>
    /\ audit' = Delivered(key, IF alreadyExist THEN "taken" ELSE "free")
    /\ UNCHANGED <<projectKey, projectName, projectNameChanged, projectNameError,
                   submitting, mounted, lifecycle, timerArgs, sinceCall,
                   checksIssued, createIssued, createInFlight,
                   onProjectCreateCalls, sinceEdit, burst, created>>

checkFreeKeyThen(key, alreadyExist) ==
    /\ BagIn(key, checkInFlight)
    /\ checkInFlight' = checkInFlight (-) SetToBag({key})
    /\ IF thenApplies(key)
       THEN IF ~alreadyExist
            THEN /\ projectKeyError' = undefined
                 /\ validating' = FALSE
                 /\ UNCHANGED touched
            ELSE /\ projectKeyError' =
                        translate("onboarding.create_project.project_key.taken")
                 /\ touched' = TRUE
                 /\ validating' = FALSE
       ELSE UNCHANGED <<projectKeyError, touched, validating>>
    /\ audit' = Delivered(key, IF alreadyExist THEN "taken" ELSE "free")
    /\ UNCHANGED <<projectKey, projectName, projectNameChanged, projectNameError,
                   submitting, mounted, lifecycle, timerArgs, sinceCall,
                   checksIssued, createIssued, createInFlight,
                   onProjectCreateCalls, sinceEdit, burst, created>>

\* the .catch callback that swallows the rejection and changes no state
checkFreeKeyCatch_swallows(key) ==
    /\ BagIn(key, checkInFlight)
    /\ checkInFlight' = checkInFlight (-) SetToBag({key})
    /\ audit' = Delivered(key, "failed")
    /\ UNCHANGED <<formState, mounted, lifecycle, timerArgs, sinceCall,
                   checksIssued, createIssued, createInFlight,
                   onProjectCreateCalls, sinceEdit, burst, created>>

checkFreeKeyCatch(key) ==
    /\ BagIn(key, checkInFlight)
    /\ checkInFlight' = checkInFlight (-) SetToBag({key})
    /\ IF catchApplies(key)
       THEN /\ projectKeyError' = undefined
            /\ validating' = FALSE
       ELSE UNCHANGED <<projectKeyError, validating>>
    /\ audit' = Delivered(key, "failed")
    /\ UNCHANGED <<projectKey, projectName, projectNameChanged, projectNameError,
                   submitting, touched, mounted, lifecycle, timerArgs, sinceCall,
                   checksIssued, createIssued, createInFlight,
                   onProjectCreateCalls, sinceEdit, burst, created>>

---------------------------------------------------------------------------
\* The field handlers.

\* the key handler that schedules the check whatever validateKey said
handleProjectKeyChange_alwaysChecks(value) ==
    LET key == OrElse(value, <<>>)
        keyError == validateKey(key)
        name == IF projectNameChanged THEN projectName ELSE key
        continues == sinceEdit < DEBOUNCE_WAIT
    IN  /\ onChange(projectKey, value)
        /\ checksIssued < MaxChecks
        /\ projectKey' = key
        /\ projectKeyError' = keyError
        /\ projectName' = name
        /\ projectNameError' = validateName(name)
        /\ touched' = TRUE
        /\ validating' = (keyError = undefined)
        /\ debouncedCheckFreeKey(key)
        /\ sinceEdit' = 0
        /\ burst' = [edits |-> IF continues THEN Min(burst.edits + 1, 2) ELSE 1,
                     reqs |-> IF continues THEN burst.reqs ELSE <<>>,
                     valid |-> (continues => burst.valid) /\ keyError = undefined,
                     pending |-> TRUE]
        /\ audit' = [audit EXCEPT !.verdict = "none", !.stale = {}]
        /\ UNCHANGED <<projectNameChanged, submitting, mounted, lifecycle,
                       checksIssued, checkInFlight, createIssued, createInFlight,
                       onProjectCreateCalls, created>>

handleProjectKeyChange(value) ==
    LET key == OrElse(value, <<>>)
        keyError == validateKey(key)
        name == IF projectNameChanged THEN projectName ELSE key
        continues == sinceEdit < DEBOUNCE_WAIT
    IN  /\ onChange(projectKey, value)
        /\ checksIssued < MaxChecks
        /\ projectKey' = key
        /\ projectKeyError' = keyError
        /\ projectName' = name
        /\ projectNameError' = validateName(name)
        /\ touched' = TRUE
        /\ validating' = (keyError = undefined)
        /\ IF keyError = undefined
           THEN debouncedCheckFreeKey(key)
           ELSE UNCHANGED <<timerArgs, sinceCall>>
        /\ sinceEdit' = 0
        /\ burst' = [edits |-> IF continues THEN Min(burst.edits + 1, 2) ELSE 1,
                     reqs |-> IF continues THEN burst.reqs ELSE <<>>,
                     valid |-> (continues => burst.valid) /\ keyError = undefined,
                     pending |-> keyError = undefined \/ (continues /\ burst.pending)]
        /\ audit' = [audit EXCEPT !.verdict = "none", !.stale = {}]
        /\ UNCHANGED <<projectNameChanged, submitting, mounted, lifecycle,
                       checksIssued, checkInFlight, createIssued, createInFlight,
                       onProjectCreateCalls, created>>

\* the name handler that forgets projectNameChanged
handleProjectNameChange_noFlag(value) ==
    /\ onChange(projectName, value)
    /\ projectName' = value
    /\ projectNameError' = validateName(value)
    /\ UNCHANGED <<projectKey, projectKeyError, projectNameChanged, submitting,
                   touched, validating, mounted, lifecycle, timerArgs, sinceCall,
                   checksIssued, checkInFlight, createIssued, createInFlight,
                   onProjectCreateCalls, sinceEdit, burst, audit, created>>

\* the name handler that also marks the form touched, as the key handler does
handleProjectNameChange_touches(value) ==
    /\ onChange(projectName, value)
    /\ projectName' = value
    /\ projectNameChanged' = TRUE
    /\ projectNameError' = validateName(value)
    /\ touched' = TRUE
    /\ UNCHANGED <<projectKey, projectKeyError, submitting, validating,
                   mounted, lifecycle, timerArgs, sinceCall, checksIssued,
                   checkInFlight, createIssued, createInFlight,
                   onProjectCreateCalls, sinceEdit, burst, audit, created>>

handleProjectNameChange(value) ==
    /\ onChange(projectName, value)
    /\ projectName' = value
    /\ projectNameChanged' = TRUE
    /\ projectNameError' = validateName(value)
    /\ UNCHANGED <<projectKey, projectKeyError, submitting, touched, validating,
                   mounted, lifecycle, timerArgs, sinceCall, checksIssued,
                   checkInFlight, createIssued, createInFlight,
                   onProjectCreateCalls, sinceEdit, burst, audit, created>>

---------------------------------------------------------------------------
\* Submission.

handleFormSubmit ==
    /\ acceptsEvents
    /\ IF canSubmit
       THEN /\ submitting' = TRUE
            /\ createIssued' = createIssued + 1
            /\ createInFlight' = createInFlight (+)
                                    SetToBag({[project |-> projectKey,
                                               name |-> createProjectName]})
       ELSE UNCHANGED <<submitting, createIssued, createInFlight>>
    /\ UNCHANGED <<projectKey, projectKeyError, projectName, projectNameChanged,
                   projectNameError, touched, validating, mounted, lifecycle,
                   timerArgs, sinceCall, checksIssued, checkInFlight,
                   onProjectCreateCalls, sinceEdit, burst, audit, created>>

\* History: a createProject completion of kind `kind` arrives.
Completed(kind) ==
    IF lifecycle = "unmounted" THEN [audit EXCEPT !.late = @ \cup {kind}]
    ELSE audit

\* createProject resolves with the project it created.
createProjectResponse(r) == [project |-> [key |-> r.project]]

\* onProjectCreate([this.state.projectKey]) instead of the created project's key
createProjectThen_passesStateKey(r) ==
    /\ BagIn(r, createInFlight)
    /\ createInFlight' = createInFlight (-) SetToBag({r})
    /\ onProjectCreateCalls' = Append(onProjectCreateCalls, <<projectKey>>)
    /\ created' = Append(created, createProjectResponse(r).project.key)
    /\ audit' = Completed("created")
    /\ UNCHANGED <<formState, mounted, lifecycle, timerArgs, sinceCall,
                   checksIssued, checkInFlight, createIssued, sinceEdit, burst>>

\* ({ project }) => this.props.onProjectCreate([project.key])
createProjectThen(r) ==
    /\ BagIn(r, createInFlight)
    /\ createInFlight' = createInFlight (-) SetToBag({r})
    /\ onProjectCreateCalls' =
           Append(onProjectCreateCalls, <<createProjectResponse(r).project.key>>)
    /\ created' = Append(created, createProjectResponse(r).project.key)
    /\ audit' = Completed("created")
    /\ UNCHANGED <<formState, mounted, lifecycle, timerArgs, sinceCall,
                   checksIssued, checkInFlight, createIssued, sinceEdit, burst>>

\* the failure callback without the mounted flag
createProjectCatch_noMountedCheck(r) ==
    /\ BagIn(r, createInFlight)
    /\ createInFlight' = createInFlight (-) SetToBag({r})
    /\ submitting' = FALSE
    /\ audit' = Completed("failed")
    /\ UNCHANGED <<projectKey, projectKeyError, projectName, projectNameChanged,
                   projectNameError, touched, validating, mounted, lifecycle,
                   timerArgs, sinceCall, checksIssued, checkInFlight,
                   createIssued, onProjectCreateCalls, sinceEdit, burst, created>>

\* the failure callback that forgets to clear submitting
createProjectCatch_keepsSubmitting(r) ==
    /\ BagIn(r, createInFlight)
    /\ createInFlight' = createInFlight (-) SetToBag({r})
    /\ audit' = Completed("failed")
    /\ UNCHANGED <<formState, mounted, lifecycle, timerArgs, sinceCall,
                   checksIssued, checkInFlight, createIssued,
                   onProjectCreateCalls, sinceEdit, burst, created>>

\* () => { if (this.mounted) { this.setState({ submitting: false }); } }
createProjectCatch(r) ==
    /\ BagIn(r, createInFlight)
    /\ createInFlight' = createInFlight (-) SetToBag({r})
    /\ IF mounted THEN submitting' = FALSE ELSE UNCHANGED submitting
    /\ audit' = Completed("failed")
    /\ UNCHANGED <<projectKey, projectKeyError, projectName, projectNameChanged,
                   projectNameError, touched, validating, mounted, lifecycle,
                   timerArgs, sinceCall, checksIssued, checkInFlight,
                   createIssued, onProjectCreateCalls, sinceEdit, burst, created>>

---------------------------------------------------------------------------
Next ==
    \/ componentDidMount
    \/ componentWillUnmount
    \/ Tick
    \/ checkFreeKey
    \/ \E key \in BagToSet(checkInFlight) : \E alreadyExist \in BOOLEAN :
           checkFreeKeyThen(key, alreadyExist)
    \/ \E key \in BagToSet(checkInFlight) : checkFreeKeyCatch(key)
    \/ \E value \in KeyInputs : handleProjectKeyChange(value)
    \/ \E value \in NameInputs : handleProjectNameChange(value)
    \/ (createIssued < MaxCreates /\ handleFormSubmit)
    \/ \E r \in BagToSet(createInFlight) : createProjectThen(r)
    \/ \E r \in BagToSet(createInFlight) : createProjectCatch(r)

Spec == Init /\ [][Next]_vars

\* <SubmitButton disabled={!this.canSubmit(this.state) || submitting}> that
\* forgets the submitting flag
submitDisabled_ignoresSubmitting == ~canSubmit

\* <SubmitButton disabled={!this.canSubmit(this.state) || submitting}>
submitDisabled == ~canSubmit \/ submitting

\* The form as the user drives it through the rendered page: the form's submit
\* event reaches handleFormSubmit only while its submit button is enabled.
submitButtonClick ==
    /\ ~submitDisabled
    /\ createIssued < MaxSubmits
    /\ handleFormSubmit

NextUI ==
    \/ componentDidMount
    \/ componentWillUnmount
    \/ Tick
    \/ checkFreeKey
    \/ \E key \in BagToSet(checkInFlight) : \E alreadyExist \in BOOLEAN :
           checkFreeKeyThen(key, alreadyExist)
    \/ \E key \in BagToSet(checkInFlight) : checkFreeKeyCatch(key)
    \/ \E value \in KeyInputs : handleProjectKeyChange(value)
    \/ \E value \in NameInputs : handleProjectNameChange(value)
    \/ submitButtonClick
    \/ \E r \in BagToSet(createInFlight) : createProjectThen(r)
    \/ \E r \in BagToSet(createInFlight) : createProjectCatch(r)

SpecUI == Init /\ [][NextUI]_vars

\* The typing side of the form alone - keystrokes following one another with
\* no time between them and nothing answered - with inputs that reach the
\* validators' limits.  A character outside ASCII stands for itself under a
\* name.
ProbeChars == {"a", "1", "_", "-", ".", ":", " ", "/", "e_acute"}
\* the empty string, every one-character string, and the two-character strings
\* over a letter, a digit, a hyphen and a character the key may not contain
ProbeStrings ==
    {<<>>} \cup { <<c>> : c \in ProbeChars }
           \cup { <<c, d>> : c \in {"a", "1", "-", "/"}, d \in {"a", "1", "-", "/"} }
\* the string of n characters that starts with first and goes on with rest
Long(n, first, rest) == [i \in 1..n |-> IF i = 1 THEN first ELSE rest]
KeyProbes ==
    ProbeStrings \cup
        { Long(MAX_NAME_LENGTH, "a", "1"), Long(MAX_NAME_LENGTH + 1, "a", "1"),
          Long(MAX_KEY_LENGTH, "a", "1"), Long(MAX_KEY_LENGTH + 1, "a", "1") }
NameProbes ==
    { <<>>, <<" ">>, <<"n">>,
      Long(MAX_NAME_LENGTH, "n", " "), Long(MAX_NAME_LENGTH + 1, "n", " ") }

NextInputs ==
    \/ componentDidMount
    \/ \E value \in KeyProbes : handleProjectKeyChange(value)
    \/ \E value \in NameProbes : handleProjectNameChange(value)

SpecInputs == Init /\ [][NextInputs]_vars

\* What the claims about progress take for granted: time passes, a debounce
\* timer that is due fires, and every doesComponentExists request is answered,
\* by a resolution or by a rejection.
checkFreeKeyAnswered ==
    \E key \in BagToSet(checkInFlight) :
        \/ \E alreadyExist \in BOOLEAN : checkFreeKeyThen(key, alreadyExist)
        \/ checkFreeKeyCatch(key)

SpecLive ==
    /\ Init
    /\ [][Next]_vars
    /\ WF_vars(Tick)
    /\ WF_vars(checkFreeKey)
    /\ WF_vars(checkFreeKeyAnswered)

---------------------------------------------------------------------------
\* Properties.

takenMessage == translate("onboarding.create_project.project_key.taken")

\* C1: a form submit sets submitting and issues createProject if and only if
\* both error fields are undefined and both strings are non-empty at that
\* moment, whatever validating is.  handleFormSubmit is deterministic, so "the
\* submit issues a request" is "a submit step that issues a request is enabled".
C1_SubmitIffEligible ==
    (acceptsEvents /\ createIssued < MaxCreates) =>
        ( (ENABLED (handleFormSubmit /\ submitting'
                      /\ createIssued' = createIssued + 1))
          <=> ( /\ projectKeyError = undefined
                /\ projectNameError = undefined
                /\ projectKey # <<>>
                /\ projectName # <<>> ) )

\* A submit was accepted while the uniqueness check was pending: no request
\* was ever issued, so no response has cleared validating since the valid key
\* edit that made the submit possible.
C1_Witness ==
    /\ createIssued > 0
    /\ submitting
    /\ checksIssued = 0
    /\ validating
    /\ timerArgs # NoArgs

\* C2: a uniqueness response, resolved or rejected, for a key that is not the
\* current projectKey leaves projectKeyError as it is.
C2_StaleResponseKeepsKeyError ==
    [][ \A key \in BagToSet(checkInFlight) :
          ( /\ key # projectKey
            /\ \/ \E alreadyExist \in BOOLEAN : checkFreeKeyThen(key, alreadyExist)
               \/ checkFreeKeyCatch(key) )
          => projectKeyError' = projectKeyError ]_vars

\* A response for another key came while mounted, before any response for the
\* current key, and the check of the current key is still awaited.
C2_Witness ==
    /\ "before" \in audit.stale
    /\ lifecycle = "mounted"
    /\ validating
    /\ projectKeyError = undefined

\* C3 as claimed: a burst of key edits causes at most one request, and once
\* the burst is over and its timer has fired that request carries the key of
\* the burst's last edit.
C3_Claim ==
    /\ Len(burst.reqs) <= 1
    /\ (burst.reqs # <<>> /\ sinceEdit = DEBOUNCE_WAIT /\ ~burst.pending)
          => burst.reqs[1] = projectKey

\* C3 as amended: a burst of key edits that all pass validateKey causes at most
\* one request; it is issued only once DEBOUNCE_WAIT ms have passed since the
\* last edit and carries that edit's key.
C3_ValidBurstOneRequest ==
    burst.valid =>
        /\ Len(burst.reqs) <= 1
        /\ burst.reqs # <<>> =>
              (burst.reqs[1] = projectKey /\ sinceEdit = DEBOUNCE_WAIT)

\* A burst of two or more valid edits has been answered by its one request.
C3_Witness ==
    /\ burst.valid
    /\ burst.edits = 2
    /\ burst.reqs = <<projectKey>>

\* What a uniqueness response for the current key dictates.
Dictated(outcome) ==
    [projectKeyError |-> IF outcome = "taken" THEN takenMessage ELSE undefined,
     validating |-> FALSE]

\* C4: whatever responses for other keys arrive before or after it, the
\* response for the current key alone decides projectKeyError and validating.
C4_CurrentKeyResponseDecides ==
    audit.verdict # "none" =>
        [projectKeyError |-> projectKeyError, validating |-> validating]
            = Dictated(audit.verdict)

\* Both requests were in flight with the second key current; the second key's
\* response came first and the first key's response after it.
C4_Witness ==
    /\ audit.verdict = "taken"
    /\ audit.stale = {"after"}
    /\ lifecycle = "mounted"

\* C5 as claimed: once a check of the current key has reported it taken, the
\* error is the taken message and canSubmit is false until the key changes.
C5_Claim ==
    [][ ( /\ audit.verdict = "taken"
          /\ ~ \E value \in KeyInputs : handleProjectKeyChange(value) )
        => (projectKeyError' = takenMessage /\ ~canSubmit') ]_vars

\* C5 as amended: while the latest response applied for the current key since
\* the last key edit is "taken", the error is the taken message and canSubmit
\* is false.
C5_TakenDisablesSubmit ==
    audit.verdict = "taken" =>
        (projectKeyError = takenMessage /\ ~canSubmit)

\* The key was reported taken, a response for another key arrived later, and
\* the name is valid: only the key error disables the submit.
C5_Witness ==
    /\ audit.verdict = "taken"
    /\ "after" \in audit.stale
    /\ projectNameError = undefined
    /\ projectName # <<>>

\* C6 as claimed: an accepted submit calls createProject with the current key
\* and the trimmed name, or the trimmed key when the trimmed name is empty, so
\* never with an empty name.
C6_Claim ==
    [][ createIssued' = createIssued + 1 =>
          \E r \in BagToSet(createInFlight') :
              /\ createInFlight' = createInFlight (+) SetToBag({r})
              /\ r.project = projectKey
              /\ r.name = IF trim(projectName) # <<>>
                          THEN trim(projectName) ELSE trim(projectKey)
              /\ r.name # <<>> ]_vars

\* C7: onProjectCreate is invoked once for every createProject that resolved,
\* with the one-element list of the resolved project's key, and never otherwise.
C7_OneCallPerCreatedProject ==
    /\ onProjectCreateCalls = [i \in 1..Len(created) |-> <<created[i]>>]
    /\ Len(onProjectCreateCalls) + BagCardinality(createInFlight) <= createIssued

\* A createProject resolved after the key field had moved on.
C7_Witness ==
    /\ Len(onProjectCreateCalls) = 1
    /\ onProjectCreateCalls[1] # <<projectKey>>

\* C8: after componentWillUnmount no step changes a field of the form state.
C8_NoStateChangeAfterUnmount ==
    [][ lifecycle = "unmounted" => UNCHANGED formState ]_vars

\* A uniqueness response and a createProject failure arrived after teardown,
\* while submitting and validating were set.
C8_Witness ==
    /\ {"check", "failed"} \subseteq audit.late
    /\ submitting
    /\ validating

\* C9 as claimed: after teardown no completion changes the form state or
\* invokes onProjectCreate.
C9_Claim ==
    [][ lifecycle = "unmounted" =>
          UNCHANGED <<formState, onProjectCreateCalls>> ]_vars

\* C9 as amended: after teardown no completion changes the form state, and
\* onProjectCreate is invoked only by a createProject that resolves, once, with
\* the created project's key.
C9_OnlySuccessObservableAfterUnmount ==
    [][ lifecycle = "unmounted" =>
          /\ UNCHANGED formState
          /\ \/ UNCHANGED onProjectCreateCalls
             \/ \E r \in BagToSet(createInFlight) :
                   /\ createInFlight' = createInFlight (-) SetToBag({r})
                   /\ onProjectCreateCalls' =
                          Append(onProjectCreateCalls, <<r.project>>) ]_vars

\* A uniqueness response and a createProject success arrived after teardown.
C9_Witness ==
    /\ {"check", "created"} \subseteq audit.late
    /\ onProjectCreateCalls # <<>>

\* C10: a rejected check of the current key, while mounted, clears
\* projectKeyError and validating and changes nothing else of the form state.
C10_RejectMeansFree ==
    [][ \A key \in BagToSet(checkInFlight) :
          (checkFreeKeyCatch(key) /\ mounted /\ key = projectKey)
          => /\ projectKeyError' = undefined
             /\ validating' = FALSE
             /\ UNCHANGED <<projectKey, projectName, projectNameChanged,
                            projectNameError, submitting, touched>> ]_vars

\* The latest response for the current key was a rejection.
C10_Witness ==
    /\ audit.verdict = "failed"
    /\ lifecycle = "mounted"
    /\ projectKeyError = undefined
    /\ ~validating

\* C11: when createProject rejects while the component is mounted, submitting
\* becomes false, no other state field changes (so canSubmit is what it was) and
\* onProjectCreate is not invoked.  A rejection is a step that takes a request
\* out of createInFlight without a project having been created.
C11_RejectReenablesForm ==
    [][ ( /\ mounted
          /\ BagCardinality(createInFlight') < BagCardinality(createInFlight)
          /\ created' = created )
        => /\ submitting' = FALSE
           /\ UNCHANGED <<projectKey, projectName, projectKeyError,
                          projectNameError, projectNameChanged, touched,
                          validating>>
           /\ canSubmit' = canSubmit
           /\ UNCHANGED onProjectCreateCalls ]_vars

\* The one request was rejected while mounted: the form can be submitted again.
C11_Witness ==
    /\ createIssued = 1
    /\ createInFlight = EmptyBag
    /\ created = <<>>
    /\ lifecycle = "mounted"
    /\ ~submitting
    /\ canSubmit
    /\ onProjectCreateCalls = <<>>

\* C12: while the name was never edited by hand it equals the key, each key
\* change mirroring the key into the name and revalidating it; once
\* projectNameChanged is true it stays true and key changes leave the name alone.
C12_NameMirrorsKeyUntilEdited ==
    [][ /\ ~projectNameChanged => projectName = projectKey
        /\ ~projectNameChanged' => projectName' = projectKey'
        /\ (~projectNameChanged' /\ projectKey' # projectKey)
              => projectNameError' = validateName(projectKey')
        /\ projectNameChanged => projectNameChanged'
        /\ (projectNameChanged /\ projectKey' # projectKey)
              => projectName' = projectName ]_vars

\* The key was changed at least twice and the unedited name followed it.
C12_Witness ==
    /\ ~projectNameChanged
    /\ burst.edits = 2
    /\ projectKey = <<"a", "1">>
    /\ projectName = <<"a", "1">>

\* C15: a name edit - a step that changes projectName and not projectKey - sets
\* projectNameChanged, recomputes projectNameError, and changes nothing else: no
\* other state field, no debounced call, no request.
C15_NameEditFrame ==
    [][ (projectName' # projectName /\ projectKey' = projectKey)
        => /\ projectNameChanged' = TRUE
           /\ projectNameError' = validateName(projectName')
           /\ UNCHANGED <<projectKey, projectKeyError, validating, touched,
                          submitting, mounted>>
           /\ UNCHANGED <<timerArgs, sinceCall, checksIssued, checkInFlight,
                          createIssued, createInFlight, onProjectCreateCalls>> ]_vars

\* A name was typed while a check was pending and before anything was touched
\* by a response: the pending check and validating are still there.
C15_Witness ==
    /\ projectNameChanged
    /\ projectName = <<"n", " ">>
    /\ projectNameError = undefined
    /\ validating
    /\ timerArgs = <<projectKey>>

\* C16: a key change sets validating and schedules a check exactly when the new
\* key passes validateKey, and schedules nothing otherwise; so every pending or
\* issued doesComponentExists request carries a key that passes validateKey.
C16_ChecksOnlyValidKeys ==
    [][ /\ projectKey' # projectKey =>
              /\ validating' = (validateKey(projectKey') = undefined)
              /\ IF validateKey(projectKey') = undefined
                 THEN timerArgs' = <<projectKey'>> /\ sinceCall' = 0
                 ELSE UNCHANGED <<timerArgs, sinceCall>>
              /\ UNCHANGED <<checksIssued, checkInFlight>>
        /\ \A key \in BagToSet(checkInFlight') : validateKey(key) = undefined
        /\ timerArgs' # NoArgs => validateKey(timerArgs'[1]) = undefined ]_vars

\* An invalid key was typed while a request for a valid one was in flight.
C16_Witness ==
    /\ validateKey(projectKey) # undefined
    /\ projectKey # <<>>
    /\ ~validating
    /\ timerArgs = NoArgs
    /\ checkInFlight # EmptyBag

\* C17: whenever canSubmit is true the current key passes validateKey and the
\* current name passes validateName.
C17_SubmittableIsLocallyValid ==
    canSubmit =>
        /\ validateKey(projectKey) = undefined
        /\ validateName(projectName) = undefined

\* The form is submittable after responses for the current key and for another
\* key have both been delivered.
C17_Witness ==
    /\ canSubmit
    /\ audit.verdict = "free"
    /\ audit.stale # {}

\* C18: while validating is true projectKeyError is undefined and touched is
\* true.
C18_ValidatingHasNoError ==
    validating => (projectKeyError = undefined /\ touched)

\* validating is true again after an earlier key was reported taken.
C18_Witness ==
    /\ validating
    /\ checksIssued > 0
    /\ checkInFlight = EmptyBag
    /\ audit.verdict = "none"

C19_ValidatingSettles ==
    \/ []<><<projectKey' # projectKey>>_vars
    \/ <>(lifecycle = "unmounted")
    \/ <>[](~validating)

\* validating was cleared by the answer to the second of two requests, the
\* answer to the first having been discarded as stale.
C19_Witness ==
    /\ lifecycle = "mounted"
    /\ ~validating
    /\ checksIssued = 2
    /\ checkInFlight = EmptyBag
    /\ timerArgs = NoArgs
    /\ audit.stale # {}
    /\ audit.verdict # "none"

\* C13: validateKey returns no error exactly for the strings of at most 400
\* characters that are all word characters, hyphens, dots or colons and have an
\* ASCII letter among them; for every other string, the empty one and the
\* digit-only ones included, it returns the project_key.error message.  Read
\* off the key error that the last key change stored.
C13_ValidateKeyAcceptance ==
    touched =>
        projectKeyError =
            IF /\ Len(projectKey) <= 400
               /\ \A p \in 1..Len(projectKey) :
                      projectKey[p] \in {"a", "n", "1", "_", "-", ".", ":"}
               /\ \E p \in 1..Len(projectKey) : projectKey[p] \in {"a", "n"}
            THEN undefined
            ELSE "invalid project key"

\* A key of exactly 400 characters was typed and accepted.
C13_Witness ==
    /\ touched
    /\ Len(projectKey) = 400
    /\ projectKeyError = undefined

\* C14: validateName returns no error exactly for the strings of 1 to 255
\* characters and the display_name.error message for the empty string and for
\* longer ones; so a key of 256 to 400 characters mirrored into a name that was
\* never edited leaves projectNameError set.
C14_ValidateNameAcceptance ==
    /\ (touched \/ projectNameChanged) =>
           projectNameError =
               IF Len(projectName) >= 1 /\ Len(projectName) <= 255
               THEN undefined
               ELSE "invalid display name"
    /\ ( /\ ~projectNameChanged
         /\ Len(projectKey) >= 256
         /\ Len(projectKey) <= 400 ) => projectNameError = "invalid display name"

\* A valid key of 256 characters was mirrored into the unedited name.
C14_Witness ==
    /\ ~projectNameChanged
    /\ Len(projectKey) = 256
    /\ projectKeyError = undefined
    /\ projectName = projectKey
    /\ projectNameError # undefined

===========================================================================
